---- MODULE Spec2Model ----
(***************************************************************************)
(* Model of Message.parse (src/src/message.ts, lines 178-256): the inline  *)
(* markup tokenizer of the bot.  A JavaScript string is a sequence of      *)
(* characters; a character is a one-letter TLA+ string, except the quote   *)
(* characters: "DQ" is the double quote, "SQ" the single quote, "BQ" the   *)
(* backtick, and "LDQ", "RDQ", "LSQ", "RSQ" are the full-width quotes.     *)
(* A JavaScript object is a function from keys to values; an object whose  *)
(* entry order matters (a mention record, an attachment) is a sequence of  *)
(* <<key, value>> pairs.                                                    *)
(***************************************************************************)
EXTENDS Integers, Sequences, FiniteSets, TLC

VARIABLES pc, payload, input, result, brief, marks

vars == <<pc, payload, input, result, brief, marks>>

----------------------------------------------------------------------------
(* String primitives of JavaScript used by parse.                          *)

\* s.startsWith(p)
StartsWith(s, p) ==
    /\ Len(s) >= Len(p)
    /\ SubSeq(s, 1, Len(p)) = p

\* s.endsWith(p)
EndsWith(s, p) ==
    /\ Len(s) >= Len(p)
    /\ SubSeq(s, Len(s) - Len(p) + 1, Len(s)) = p

\* s.slice(from) with a 1-based first kept position
SliceFrom(s, from) == SubSeq(s, from, Len(s))

\* the positions at which m occurs in s
Occurrences(s, m) ==
    {i \in 1..(Len(s) - Len(m) + 1) : SubSeq(s, i, i + Len(m) - 1) = m}

\* s.indexOf(m), 1-based; 0 when m does not occur
IndexOf(s, m) ==
    IF Occurrences(s, m) = {} THEN 0
    ELSE CHOOSE i \in Occurrences(s, m) : \A j \in Occurrences(s, m) : i <= j

\* s.replace(pat, rep) with a string pattern: the first occurrence only
Replace(s, pat, rep) ==
    LET i == IndexOf(s, pat)
    IN  IF i = 0 THEN s
        ELSE SubSeq(s, 1, i - 1) \o rep \o SliceFrom(s, i + Len(pat))

\* s.split(sep) for a one-character separator
RECURSIVE Split(_, _)
Split(s, sep) ==
    LET i == IndexOf(s, <<sep>>)
    IN  IF i = 0 THEN <<s>>
        ELSE <<SubSeq(s, 1, i - 1)>> \o Split(SliceFrom(s, i + 1), sep)

\* parts.join(sep) for a one-character separator
RECURSIVE Join(_, _)
Join(parts, sep) ==
    IF parts = <<>> THEN <<>>
    ELSE IF Len(parts) = 1 THEN parts[1]
    ELSE parts[1] \o <<sep>> \o Join(Tail(parts), sep)

Uppers == <<"A", "B", "C", "D", "E", "F", "G", "H", "I", "J", "K", "L", "M",
            "N", "O", "P", "Q", "R", "S", "T", "U", "V", "W", "X", "Y", "Z">>

Lowers == <<"a", "b", "c", "d", "e", "f", "g", "h", "i", "j", "k", "l", "m",
            "n", "o", "p", "q", "r", "s", "t", "u", "v", "w", "x", "y", "z">>

Digits == {"0", "1", "2", "3", "4", "5", "6", "7", "8", "9"}

LowerChar(c) ==
    IF \E i \in 1..Len(Uppers) : Uppers[i] = c
    THEN Lowers[CHOOSE i \in 1..Len(Uppers) : Uppers[i] = c]
    ELSE c

\* s.toLowerCase()
ToLowerCase(s) == [i \in 1..Len(s) |-> LowerChar(s[i])]

\* /^[a-z]+:[0-9]+$/.test(s)
IsShorthand(s) ==
    \E k \in 2..(Len(s) - 1) :
        /\ s[k] = ":"
        /\ \A i \in 1..(k - 1) : \E j \in 1..Len(Lowers) : Lowers[j] = s[i]
        /\ \A i \in (k + 1)..Len(s) : s[i] \in Digits

----------------------------------------------------------------------------
(* Values and objects.  A JavaScript value is its type and its rendering   *)
(* as a string (what `${value}` gives).                                    *)

StrV(chars) == [kind |-> "string", text |-> chars]

BoolV(b) ==
    [kind |-> "boolean",
     text |-> IF b THEN <<"t", "r", "u", "e">> ELSE <<"f", "a", "l", "s", "e">>]

\* the object with entry k set to v, any earlier entry k replaced
ObjSet(obj, k, v) == (k :> v) @@ obj

\* Object.fromEntries(pairs): a later pair replaces an earlier one
RECURSIVE FromEntries(_)
FromEntries(pairs) ==
    IF pairs = <<>> THEN <<>>
    ELSE ObjSet(FromEntries(SubSeq(pairs, 1, Len(pairs) - 1)),
                pairs[Len(pairs)][1], pairs[Len(pairs)][2])

\* {...a, ...b}: b's entries replace a's
Spread(a, b) == b @@ a

\* rec.key of an entry list; the entry list has at most one entry per key
HasKey(rec, key) == \E i \in 1..Len(rec) : rec[i][1] = key

GetKey(rec, key) == rec[CHOOSE i \in 1..Len(rec) : rec[i][1] = key][2]

Str_type == <<"t", "y", "p", "e">>
Str_text == <<"t", "e", "x", "t">>
Str_face == <<"f", "a", "c", "e">>
Str_at == <<"a", "t">>
Str_id == <<"i", "d">>
Str_all == <<"a", "l", "l">>
Str_src == <<"s", "r", "c">>
Str_url == <<"u", "r", "l">>
Str_faceType == <<"f", "a", "c", "e", "T", "y", "p", "e">>
Str_faceId == <<"f", "a", "c", "e", "I", "d">>
Str_everyone == <<"@", "e", "v", "e", "r", "y", "o", "n", "e">>
Str_content_type ==
    <<"c", "o", "n", "t", "e", "n", "t", "_", "t", "y", "p", "e">>
Str_https == <<"h", "t", "t", "p", "s", ":", "/", "/">>

----------------------------------------------------------------------------
(* The scanner's regular expression (message.ts line 183).                 *)

OpenQuotes == {"DQ", "SQ", "BQ", "LDQ", "LSQ"}

CloseOf(c) ==
    CASE c = "LDQ" -> "RDQ"
      [] c = "LSQ" -> "RSQ"
      [] OTHER -> c

SetMin(S) == CHOOSE i \in S : \A j \in S : i <= j

\* MatchEndAt with greedy quantifiers, * and + for *? and +?
MatchEndAtGreedy(t, i) ==
    IF t[i] \in OpenQuotes
    THEN LET J == {j \in (i + 1)..Len(t) : t[j] = CloseOf(t[i])}
         IN  IF J = {} THEN 0 ELSE CHOOSE j \in J : \A x \in J : x <= j
    ELSE IF t[i] = "<" /\ i + 1 <= Len(t) /\ t[i + 1] # ">"
    THEN LET J == {j \in (i + 2)..Len(t) : t[j] = ">"}
         IN  IF J = {} THEN 0 ELSE CHOOSE j \in J : \A x \in J : x <= j
    ELSE 0

\* the last position of the regex match that starts at i; 0 when the
\* regex does not match at i
MatchEndAt(t, i) ==
    IF t[i] \in OpenQuotes
    THEN LET J == {j \in (i + 1)..Len(t) : t[j] = CloseOf(t[i])}
         IN  IF J = {} THEN 0 ELSE SetMin(J)
    ELSE IF t[i] = "<" /\ i + 1 <= Len(t) /\ t[i + 1] # ">"
    THEN LET J == {j \in (i + 2)..Len(t) : t[j] = ">"}
         IN  IF J = {} THEN 0 ELSE SetMin(J)
    ELSE 0

\* template.match(regex): the leftmost match, <<>> when there is none
RegexMatch(t) ==
    LET I == {i \in 1..Len(t) : MatchEndAt(t, i) # 0}
    IN  IF I = {} THEN <<>>
        ELSE SubSeq(t, SetMin(I), MatchEndAt(t, SetMin(I)))

----------------------------------------------------------------------------
(* Bracket tags (message.ts lines 197-223).                                *)

QuotePairs ==
    {<<"DQ", "DQ">>, <<"SQ", "SQ">>, <<"BQ", "BQ">>,
     <<"LDQ", "RDQ">>, <<"LSQ", "RSQ">>}

\* trimQuote of utils: one layer of surrounding matching quotes is removed
trimQuote(s) ==
    IF \E q \in QuotePairs : StartsWith(s, <<q[1]>>) /\ EndsWith(s, <<q[2]>>)
    THEN SubSeq(s, 2, Len(s) - 1)
    ELSE s

\* `${key}=${value}` of one object entry
EntryToken(entry) == entry[1] \o <<"=">> \o entry[2].text

\* FindMention with u.id == id: an id of another type with the same text matches
FindMentionLoose(mentions, id) ==
    LET I == {i \in 1..Len(mentions) :
                /\ HasKey(mentions[i], Str_id)
                /\ GetKey(mentions[i], Str_id).text = id}
    IN  IF I = {} THEN <<>> ELSE mentions[SetMin(I)]

\* payload.mentions.find(u => u.id === id) || {}
FindMention(mentions, id) ==
    LET I == {i \in 1..Len(mentions) :
                /\ HasKey(mentions[i], Str_id)
                /\ GetKey(mentions[i], Str_id) = StrV(id)}
    IN  IF I = {} THEN <<>> ELSE mentions[SetMin(I)]

\* Object.entries(record).map(([key, value]) => `${key}=${value}`)
EntryTokens(record) == [i \in 1..Len(record) |-> EntryToken(record[i])]

\* lines 198-215: the type and the attrs of a tag.  strings tells whether
\* the elements of attrs are strings: line 210 stores an array in attrs.
\* threw: line 206 read a property of undefined.
Classify(p, match) ==
    LET parts == Split(SubSeq(match, 2, Len(match) - 1), ",")
        type == Head(parts)
        attrs == Tail(parts)
    IN  IF StartsWith(type, Str_faceType)
        THEN [threw |-> FALSE, type |-> Str_face, strings |-> TRUE,
              attrs |-> [i \in 1..Len(attrs) |->
                            Replace(attrs[i], Str_faceId, Str_id)]]
        ELSE IF StartsWith(type, <<"@">>)
        THEN IF StartsWith(type, <<"@", "!">>)
             THEN IF "mentions" \notin DOMAIN p
                  THEN [threw |-> TRUE, type |-> Str_at, strings |-> TRUE,
                        attrs |-> <<>>]
                  ELSE [threw |-> FALSE, type |-> Str_at, strings |-> TRUE,
                        attrs |-> EntryTokens(
                                    FindMention(p.mentions, SliceFrom(type, 3)))]
             ELSE IF type = Str_everyone
             THEN [threw |-> FALSE, type |-> Str_at, strings |-> FALSE,
                   attrs |-> <<<<Str_all, TRUE>>>>]
             ELSE [threw |-> FALSE, type |-> type, strings |-> TRUE,
                   attrs |-> attrs]
        ELSE IF IsShorthand(type)
        THEN [threw |-> FALSE, type |-> Str_face, strings |-> TRUE,
              attrs |-> <<Str_id \o <<"=">> \o Split(type, ":")[2]>>]
        ELSE [threw |-> FALSE, type |-> type, strings |-> TRUE,
              attrs |-> attrs]

\* lines 218-221: one attribute token as a [key, value] entry
AttrEntry(attr) ==
    LET kv == Split(attr, "=")
    IN  <<ToLowerCase(Head(kv)), StrV(trimQuote(Join(Tail(kv), "=")))>>

\* lines 216-222: the segment pushed for a tag
TagSegment(type, attrs) ==
    Spread((Str_type :> StrV(type)),
           FromEntries([i \in 1..Len(attrs) |-> AttrEntry(attrs[i])]))

\* line 223 and line 250: `<${type},${attrs.join(',')}>`
TagBrief(type, attrs) == <<"<">> \o type \o <<",">> \o Join(attrs, ",") \o <<">">>

\* a text segment, lines 190-193, 225-228 and 233-236
TextSegment(text) == (Str_type :> StrV(Str_text)) @@ (Str_text :> StrV(text))

----------------------------------------------------------------------------
(* Message.parse (message.ts lines 178-256).  The loop state st holds the  *)
(* locals template, result and brief; threw tells that a TypeError left    *)
(* the function.  marks is bookkeeping that is not in the code: for each   *)
(* segment of result, what produced it (kind), where its source text       *)
(* starts in payload.content (pos, from 1) and how long that text is       *)
(* (len), and where its rendering starts in brief (bpos) and how long it   *)
(* is (blen).  For an attachment segment pos is the index of the           *)
(* attachment in payload.attachments.                                      *)

\* line 179: payload.content || ''
Content(p) == IF "content" \in DOMAIN p THEN p.content ELSE <<>>

\* Push with result.unshift(seg): the segment is put first
PushFront(st, seg, text, kind, pos, len) ==
    [st EXCEPT !.result = <<seg>> \o @,
               !.brief = @ \o text,
               !.marks = Append(@, [kind |-> kind, pos |-> pos, len |-> len,
                                    bpos |-> Len(st.brief) + 1,
                                    blen |-> Len(text)])]

\* result.push(seg); brief += text
Push(st, seg, text, kind, pos, len) ==
    [st EXCEPT !.result = Append(@, seg),
               !.brief = @ \o text,
               !.marks = Append(@, [kind |-> kind, pos |-> pos, len |-> len,
                                    bpos |-> Len(st.brief) + 1,
                                    blen |-> Len(text)])]

\* lines 184-231: the while loop
RECURSIVE ScanLoop(_, _)
ScanLoop(p, st) ==
    LET match == RegexMatch(st.template)
    IN  IF st.template = <<>> \/ match = <<>> THEN st
        ELSE
          LET index == IndexOf(st.template, match)
              prevText == SubSeq(st.template, 1, index - 1)
              done == Len(Content(p)) - Len(st.template)
              st1 == IF prevText # <<>>
                     THEN Push(st, TextSegment(prevText), prevText,
                               "prev", done + 1, Len(prevText))
                     ELSE st
              st2 == [st1 EXCEPT
                        !.template = SliceFrom(st.template, index + Len(match))]
          IN  IF StartsWith(match, <<"<">>)
              THEN LET c == Classify(p, match)
                   IN  IF c.threw \/ ~c.strings
                       THEN [st2 EXCEPT !.threw = TRUE]
                       ELSE ScanLoop(p, Push(st2, TagSegment(c.type, c.attrs),
                                             TagBrief(c.type, c.attrs),
                                             "tag", done + index, Len(match)))
              ELSE ScanLoop(p, Push(st2, TextSegment(match), match,
                                    "quote", done + index, Len(match)))

\* Trailing without the guard of line 232: the text is pushed even when empty
TrailingAlways(p, st) ==
    Push(st, TextSegment(st.template), st.template, "tail",
         Len(Content(p)) - Len(st.template) + 1, Len(st.template))

\* lines 232-238: the text left after the last match
Trailing(p, st) ==
    IF st.template # <<>>
    THEN Push(st, TextSegment(st.template), st.template, "tail",
              Len(Content(p)) - Len(st.template) + 1, Len(st.template))
    ELSE st

\* line 242: let {content_type, ...data} = attachment
AttachmentData(attachment) ==
    SelectSeq(attachment, LAMBDA e : e[1] # Str_content_type)

\* `${data.src}`: the text undefined when data has no such entry
DataText(data, key) ==
    IF HasKey(data, key) THEN GetKey(data, key).text
    ELSE <<"u", "n", "d", "e", "f", "i", "n", "e", "d">>

\* line 243: const [type] = content_type.split('/')
AttachmentType(attachment) ==
    Split(GetKey(attachment, Str_content_type).text, "/")[1]

\* lines 244-249: the segment pushed for an attachment
AttachmentSegment(attachment) ==
    LET data == AttachmentData(attachment)
    IN  ObjSet(ObjSet(Spread((Str_type :> StrV(AttachmentType(attachment))),
                             FromEntries(data)),
                      Str_src, StrV(Str_https \o DataText(data, Str_src))),
               Str_url, StrV(Str_https \o DataText(data, Str_url)))

\* lines 241-251: the for loop, from attachment i on
RECURSIVE AttachLoop(_, _, _)
AttachLoop(attachments, i, st) ==
    IF i > Len(attachments) THEN st
    ELSE AttachLoop(attachments, i + 1,
           Push(st, AttachmentSegment(attachments[i]),
                TagBrief(AttachmentType(attachments[i]),
                         EntryTokens(AttachmentData(attachments[i]))),
                "attach", i, 0))

\* lines 240-252
Attachments(p, st) ==
    IF "attachments" \in DOMAIN p THEN AttachLoop(p.attachments, 1, st) ELSE st

\* lines 253-254: delete payload.attachments; delete payload.mentions
Consume(p) == [k \in DOMAIN p \ {"attachments", "mentions"} |-> p[k]]

\* lines 178-256: what a call of parse leaves
Parse(p) ==
    LET st0 == [template |-> Content(p), result |-> <<>>, brief |-> <<>>,
                marks |-> <<>>, threw |-> FALSE]
        st1 == ScanLoop(p, st0)
    IN  IF st1.threw
        THEN [threw |-> TRUE, result |-> <<>>, brief |-> <<>>, marks |-> <<>>,
              payload |-> p]
        ELSE LET st2 == Attachments(p, Trailing(p, st1))
             IN  [threw |-> FALSE, result |-> st2.result, brief |-> st2.brief,
                  marks |-> st2.marks, payload |-> Consume(p)]

----------------------------------------------------------------------------
(* The payloads parse is called with.                                      *)

MaxLen == 5
MaxAttrs == 1
MaxAttach == 2

Str_hi == <<"h", "i">>
Str_ann == <<"a", "n", "n">>
Str_bob == <<"b", "o", "b">>
Str_username == <<"u", "s", "e", "r", "n", "a", "m", "e">>

\* content written freely over a small alphabet
FreeAlphabet == {"a", ",", "<", ">", "DQ"}

FreeContents == UNION {[1..n -> FreeAlphabet] : n \in 0..MaxLen}

\* content holding one generated bracket tag between two surroundings
TagTypes ==
    {<<"b">>, Str_faceType, Str_faceType \o <<"2">>, <<"@", "!", "1">>,
     <<"@", "!", "9">>, Str_everyone, <<"@", "b">>, <<"f", ":", "4", "2">>,
     <<"F", ":", "4">>}

AttrTokens ==
    {<<"k", "=", "v">>,
     Str_faceId \o <<"=", "7">>,
     <<"n", "=">> \o Str_faceId,
     Str_type \o <<"=", "c">>,
     <<"T", "Y", "P", "E", "=", "c">>,
     <<"K", "=", "BQ", "v", "BQ">>}

AttrSeqs == UNION {[1..n -> AttrTokens] : n \in 0..MaxAttrs}

MakeTag(type, attrs) == <<"<">> \o Join(<<type>> \o attrs, ",") \o <<">">>

Surround ==
    {<<>>, Str_hi, <<"<", "b", ">">>, <<"LDQ", "<", "b", ">", "RDQ">>,
     <<"SQ", "LSQ", "SQ", "RSQ">>}

TagContents ==
    {pre \o MakeTag(t, a) \o post :
        pre \in Surround, t \in TagTypes, a \in AttrSeqs, post \in Surround}

\* payload.mentions, when the payload has it
MentionLists ==
    {<<>>,
     << <<<<Str_id, StrV(<<"1">>)>>, <<Str_username, StrV(Str_ann)>>>> >>,
     << <<<<Str_id, [kind |-> "number", text |-> <<"1">>]>>,
          <<Str_username, StrV(Str_bob)>>>>,
        <<<<Str_id, StrV(<<"1">>)>>, <<<<"N", "i", "c", "k">>, StrV(Str_ann)>>,
          <<<<"b", "o", "t">>, BoolV(FALSE)>>>>,
        <<<<Str_id, StrV(<<"1">>)>>, <<Str_username, StrV(Str_bob)>>>> >>,
     << <<<<Str_id, StrV(<<"1">>)>>, <<Str_type, StrV(<<"c">>)>>>> >>}

\* the records of payload.attachments
AttachmentRecords ==
    {<<<<Str_content_type, StrV(<<"i", "m", "a", "g", "e", "/", "p", "n", "g">>)>>,
       <<Str_src, StrV(<<"x", "/", "a">>)>>,
       <<Str_url, StrV(<<"x", "/", "b">>)>>>>,
     <<<<Str_url, StrV(<<"y">>)>>,
       <<<<"S", "i", "z", "e">>, [kind |-> "number", text |-> <<"7">>]>>,
       <<Str_content_type, StrV(<<"v", "i", "d", "e", "o", "/", "m", "p", "4">>)>>,
       <<Str_src, StrV(<<"y">>)>>>>,
     <<<<Str_content_type, StrV(<<"f", "i", "l", "e">>)>>,
       <<Str_type, StrV(<<"c">>)>>,
       <<Str_src, StrV(<<"z">>)>>,
       <<Str_url, StrV(<<"z">>)>>>>}

AttachmentLists == UNION {[1..n -> AttachmentRecords] : n \in 0..MaxAttach}

AttachContents == {<<>>, Str_hi, <<"<", "b", ">", "a">>}

\* an optional field: present tells whether the payload has it
Absent == [present |-> FALSE, value |-> <<>>]

Given(v) == [present |-> TRUE, value |-> v]

MakePayload(content, mentions, attachments) ==
    (IF content.present THEN [content |-> content.value] ELSE <<>>)
    @@ (IF mentions.present THEN [mentions |-> mentions.value] ELSE <<>>)
    @@ (IF attachments.present THEN [attachments |-> attachments.value] ELSE <<>>)

Payloads ==
    {MakePayload(Given(c), Absent, Absent) : c \in FreeContents}
    \cup {MakePayload(Given(c), m, Absent) :
            c \in TagContents, m \in {Absent} \cup {Given(l) : l \in MentionLists}}
    \cup {MakePayload(Given(c), m, a) :
            c \in AttachContents,
            m \in {Absent, Given(<<>>)},
            a \in {Absent} \cup {Given(l) : l \in AttachmentLists}}
    \cup {MakePayload(Absent, Given(<<>>), Given(<<>>))}

----------------------------------------------------------------------------
(* The state machine: a payload arrives, parse is called on it once.       *)
(* input keeps the payload as it was when parse was called.                *)

Init ==
    /\ payload \in Payloads
    /\ input = payload
    /\ pc = "called"
    /\ result = <<>>
    /\ brief = <<>>
    /\ marks = <<>>

\* Message.parse(payload)
ParseCall ==
    /\ pc = "called"
    /\ LET r == Parse(payload)
       IN  /\ pc' = IF r.threw THEN "threw" ELSE "returned"
           /\ payload' = r.payload
           /\ result' = r.result
           /\ brief' = r.brief
           /\ marks' = r.marks
    /\ UNCHANGED input

Next == ParseCall

Spec == Init /\ [][Next]_vars

----------------------------------------------------------------------------
(* What the claims speak of.                                               *)

Returned == pc = "returned"

QuoteChars == OpenQuotes \cup {"RDQ", "RSQ"}

\* the source text of the k-th segment, for a segment the scanner produced
Src(k) ==
    SubSeq(Content(input), marks[k].pos, marks[k].pos + marks[k].len - 1)

\* the first comma-separated component of a tag <...>
TagHead(tag) ==
    LET inner == SubSeq(tag, 2, Len(tag) - 1)
        C == {i \in 1..Len(inner) : inner[i] = ","}
    IN  IF C = {} THEN inner ELSE SubSeq(inner, 1, SetMin(C) - 1)

\* the segments a bracket tag produced
TagMarks == {k \in 1..Len(marks) : marks[k].kind = "tag"}

\* a JavaScript value that counts as true in a condition
Truthy(v) ==
    /\ ~(v.kind = "boolean" /\ v.text = BoolV(FALSE).text)
    /\ ~(v.kind = "string" /\ v.text = <<>>)
    /\ ~(v.kind = "number" /\ v.text = <<"0">>)

MissingOrEmpty(p, field) == field \notin DOMAIN p \/ p[field] = <<>>

EveryoneTag == <<"<">> \o Str_everyone \o <<">">>

\* content holds <@everyone> with only plain text before it, so that the
\* scanner meets it as a bracket tag
MeetsEveryoneTag(content) ==
    LET i == IndexOf(content, EveryoneTag)
    IN  /\ i # 0
        /\ \A j \in 1..(i - 1) : content[j] \notin QuoteChars \cup {"<"}

\* C1: a call of parse on content that holds the tag <@everyone> returns, and
\* the result holds a segment of type at whose attribute all is present and
\* truthy, whether or not the payload has mentions.
C1_EveryoneSegment ==
    (pc # "called" /\ MeetsEveryoneTag(Content(input)))
        => /\ Returned
           /\ \E k \in TagMarks :
                /\ Src(k) = EveryoneTag
                /\ result[k][Str_type] = StrV(Str_at)
                /\ Str_all \in DOMAIN result[k]
                /\ Truthy(result[k][Str_all])

\* C2: a call of parse on a payload whose mentions or attachments are missing
\* or empty returns, whatever the content (mention tags <@!id> included).
\* Content that holds @everyone is left out here: it is the case of C1.
C2_NeverRaises ==
    (/\ pc # "called"
     /\ MissingOrEmpty(input, "mentions") \/ MissingOrEmpty(input, "attachments")
     /\ Occurrences(Content(input), Str_everyone) = {})
        => Returned

\* the segments a mention tag <@!id...> produced
MentionTagMarks ==
    {k \in TagMarks : StartsWith(TagHead(Src(k)), <<"@", "!">>)}

\* the first record of mentions whose id is the string id; <<>> when none is
FirstRecordWithId(mentions, id) ==
    LET M == {i \in 1..Len(mentions) :
                \E j \in 1..Len(mentions[i]) :
                    mentions[i][j] = <<Str_id, StrV(id)>>}
    IN  IF M = {} THEN <<>> ELSE mentions[SetMin(M)]

RecordKeys(rec) == {rec[i][1] : i \in 1..Len(rec)}

ReadBackKey(e) ==
    LET token == e[1] \o <<"=">> \o e[2].text
    IN  ToLowerCase(SubSeq(token, 1,
                           SetMin({i \in 1..Len(token) : token[i] = "="}) - 1))

ReadBackValue(e) ==
    LET token == e[1] \o <<"=">> \o e[2].text
    IN  StrV(trimQuote(SliceFrom(token,
                 SetMin({i \in 1..Len(token) : token[i] = "="}) + 1)))

SetMax(S) == CHOOSE i \in S : \A j \in S : j <= i

\* {type: at} overlaid with the fields of rec read back in order
ExpectedMention(rec) ==
    [x \in {Str_type} \cup {ReadBackKey(rec[i]) : i \in 1..Len(rec)} |->
        LET I == {i \in 1..Len(rec) : ReadBackKey(rec[i]) = x}
        IN  IF I = {} THEN StrV(Str_at) ELSE ReadBackValue(rec[SetMax(I)])]

WrittenAttrs(tag) == Tail(Split(SubSeq(tag, 2, Len(tag) - 1), ","))

\* the key written in an attribute token: the token up to its first =
WrittenKey(token) ==
    LET E == {i \in 1..Len(token) : token[i] = "="}
    IN  IF E = {} THEN token ELSE SubSeq(token, 1, SetMin(E) - 1)

\* the value written in an attribute token: what follows its first =
WrittenValue(token) ==
    LET E == {i \in 1..Len(token) : token[i] = "="}
    IN  IF E = {} THEN <<>> ELSE SliceFrom(token, SetMin(E) + 1)

\* content is bracket tags only, their keys in lower case, nothing quoted
OnlyPlainTags ==
    /\ marks # <<>>
    /\ \A k \in 1..Len(marks) : marks[k].kind = "tag"
    /\ \A i \in 1..Len(Content(input)) : Content(input)[i] \notin QuoteChars
    /\ \A k \in TagMarks :
         \A i \in 1..Len(WrittenAttrs(Src(k))) :
            LET key == WrittenKey(WrittenAttrs(Src(k))[i])
            IN  ToLowerCase(key) = key

\* C4: for content made of bracket tags only, with lower-case keys and
\* nothing quoted (tags without attributes included), parsing the brief of
\* the first parse again gives the segments of the first parse.
C4_BriefIdempotent ==
    (Returned /\ OnlyPlainTags)
        => LET again == Parse([content |-> brief])
           IN  ~again.threw /\ again.result = result

\* content with no quote character
NoQuotes(content) == \A i \in 1..Len(content) : content[i] \notin QuoteChars

\* content with no bracket tag: no < that is followed by a character other
\* than > and, later, by a >
NoBracketTag(content) ==
    ~\E i \in 1..Len(content) :
        /\ content[i] = "<"
        /\ i + 1 <= Len(content)
        /\ content[i + 1] # ">"
        /\ \E j \in (i + 2)..Len(content) : content[j] = ">"

PlainPayload ==
    /\ NoQuotes(Content(input))
    /\ NoBracketTag(Content(input))
    /\ MissingOrEmpty(input, "attachments")

\* the one text segment {type: text, text: content}
WholeText(content) ==
    [x \in {Str_type, Str_text} |->
        IF x = Str_type THEN StrV(Str_text) ELSE StrV(content)]

\* C5 as first stated: for content with no quote characters and no bracket
\* tags and a payload with no attachments, the segments are the one text
\* segment holding the whole content, and brief is the content.
C5_PlainText ==
    (pc # "called" /\ PlainPayload)
        => /\ Returned
           /\ result = <<WholeText(Content(input))>>
           /\ brief = Content(input)

\* C5 as amended: for content with no quote characters and no bracket tags
\* and a payload with no attachments, brief is the content, and the segments
\* are the one text segment holding the whole content when the content is
\* not empty, and no segment at all when the content is empty or missing.
C5_PlainTextOrEmpty ==
    (pc # "called" /\ PlainPayload)
        => /\ Returned
           /\ brief = Content(input)
           /\ result = IF Content(input) = <<>> THEN <<>>
                       ELSE <<WholeText(Content(input))>>

\* plain content that holds a <, a > and a comma, parsed
C5_Witness ==
    /\ Returned
    /\ PlainPayload
    /\ \A c \in {"<", ">", ","} : Occurrences(Content(input), <<c>>) # {}
    /\ Len(result) = 1

\* payload.attachments as parse was called; none when the field is missing
InputAttachments ==
    IF "attachments" \in DOMAIN input THEN input.attachments ELSE <<>>

\* the segments the scanner produced, and their number
ScannerMarks == {k \in 1..Len(marks) : marks[k].kind # "attach"}

\* the value of field key of an attachment or mention record
FieldOf(rec, key) == (CHOOSE e \in {rec[i] : i \in 1..Len(rec)} : e[1] = key)[2]

\* C6: in a result of parse the scanner segments come first, in the order of
\* their source text, which cuts content into consecutive pieces from its
\* first character to its last; then comes one segment per attachment, in the
\* order of payload.attachments.
C6_SegmentOrder ==
    Returned =>
        LET ns == Cardinality(ScannerMarks)
            content == Content(input)
        IN  /\ Len(marks) = Len(result)
            /\ ScannerMarks = 1..ns
            /\ Len(result) - ns = Len(InputAttachments)
            /\ \A k \in 1..ns :
                 /\ marks[k].len > 0
                 /\ marks[k].pos =
                        IF k = 1 THEN 1 ELSE marks[k - 1].pos + marks[k - 1].len
                 /\ marks[k].kind \in {"prev", "quote", "tail"}
                        => result[k] = WholeText(Src(k))
                 /\ marks[k].kind = "tag"
                        => Src(k)[1] = "<" /\ Src(k)[Len(Src(k))] = ">"
            /\ Len(content) =
                 IF ns = 0 THEN 0 ELSE marks[ns].pos + marks[ns].len - 1
            /\ \A i \in 1..Len(InputAttachments) :
                 /\ marks[ns + i].pos = i
                 /\ result[ns + i][Str_url] =
                        StrV(Str_https \o FieldOf(InputAttachments[i], Str_url).text)

\* text, a tag and more text, then two different attachments
C6_Witness ==
    /\ Returned
    /\ Cardinality(ScannerMarks) >= 2
    /\ \E k \in ScannerMarks : marks[k].kind = "tag"
    /\ Len(InputAttachments) = 2
    /\ InputAttachments[1] # InputAttachments[2]

\* C7: for every attachment the segment appended has as type the part of
\* content_type before the /, as src and url those of the attachment after
\* https://, and every other field of the attachment unchanged; and once
\* parse has returned the payload has no attachments and no mentions field,
\* and the content it had.  A field of the attachment named type cannot be
\* both kept and be the part of content_type: the claim is read as giving
\* the segment the type of the content_type, and keeping the other fields.
C7_AttachmentSegment ==
    Returned =>
        LET ns == Cardinality(ScannerMarks)
        IN  /\ \A i \in 1..Len(InputAttachments) :
                 LET att == InputAttachments[i]
                     seg == result[ns + i]
                     ct == FieldOf(att, Str_content_type).text
                     S == {j \in 1..Len(ct) : ct[j] = "/"}
                 IN  /\ seg[Str_type] =
                            StrV(IF S = {} THEN ct ELSE SubSeq(ct, 1, SetMin(S) - 1))
                     /\ seg[Str_src] = StrV(Str_https \o FieldOf(att, Str_src).text)
                     /\ seg[Str_url] = StrV(Str_https \o FieldOf(att, Str_url).text)
                     /\ \A j \in 1..Len(att) :
                          att[j][1] \notin
                                {Str_content_type, Str_src, Str_url, Str_type}
                            => /\ att[j][1] \in DOMAIN seg
                               /\ seg[att[j][1]] = att[j][2]
            /\ "attachments" \notin DOMAIN payload
            /\ "mentions" \notin DOMAIN payload
            /\ Content(payload) = Content(input)
            /\ ("content" \in DOMAIN payload) = ("content" \in DOMAIN input)

\* the first quote or < of content opens a quoted span: where it starts and
\* how long it is; <<>> when content has no such span
FirstQuotedSpan(content) ==
    LET F == {i \in 1..Len(content) : content[i] \in OpenQuotes \cup {"<"}}
    IN  IF F = {} \/ content[SetMin(F)] = "<" THEN <<>>
        ELSE LET i == SetMin(F)
                 J == {j \in (i + 1)..Len(content) : content[j] = CloseOf(content[i])}
             IN  IF J = {} THEN <<>> ELSE <<i, SetMin(J) - i + 1>>

QuoteMarks == {k \in 1..Len(marks) : marks[k].kind = "quote"}

\* C8: a quoted span the scanner matched runs from an opening quote to the
\* matching closing quote, is one text segment holding the span with both
\* quotes, is copied as it is into brief, and no bracket tag inside it
\* produces a segment; and when the first quote or < of content opens a
\* quoted span, the scanner matches that span up to its first closing quote.
C8_QuotedSpans ==
    Returned =>
        /\ \A k \in QuoteMarks :
             /\ Src(k)[1] \in OpenQuotes
             /\ Src(k)[Len(Src(k))] = CloseOf(Src(k)[1])
             /\ result[k] = WholeText(Src(k))
             /\ SubSeq(brief, marks[k].bpos, marks[k].bpos + marks[k].blen - 1)
                    = Src(k)
             /\ \A j \in TagMarks :
                    \/ marks[j].pos + marks[j].len <= marks[k].pos
                    \/ marks[j].pos >= marks[k].pos + marks[k].len
        /\ FirstQuotedSpan(Content(input)) # <<>>
             => \E k \in QuoteMarks :
                    <<marks[k].pos, marks[k].len>> = FirstQuotedSpan(Content(input))

\* a quoted span that holds a whole bracket tag, and a tag outside it
C8_Witness ==
    /\ Returned
    /\ TagMarks # {}
    /\ \E k \in QuoteMarks :
         \E i \in 2..(Len(Src(k)) - 3) :
            /\ Src(k)[i] = "<"
            /\ Src(k)[i + 1] # ">"
            /\ Src(k)[i + 2] = ">"

FaceTagMarks == {k \in TagMarks : StartsWith(TagHead(Src(k)), Str_faceType)}

\* the key under which the claim has an attribute written with key appear
FaceKey(key) == IF key = Str_faceId THEN Str_id ELSE key

\* C9: for a tag whose type starts with faceType, an attribute written as
\* faceId=v is emitted as id=v and every other attribute key=v is emitted
\* under its own key with its value v unchanged, also when the value or the
\* key holds the text faceId.  Stated for the attributes with nothing
\* quoted, whose key is faceId or in lower case, and that no later attribute
\* of the tag overwrites.
C9_FaceKeepsValues ==
    Returned =>
        \A k \in FaceTagMarks :
            LET attrs == WrittenAttrs(Src(k))
            IN  \A i \in 1..Len(attrs) :
                  LET key == WrittenKey(attrs[i])
                  IN  (/\ NoQuotes(attrs[i])
                       /\ key = Str_faceId \/ ToLowerCase(key) = key
                       /\ \A j \in (i + 1)..Len(attrs) :
                            ToLowerCase(FaceKey(WrittenKey(attrs[j])))
                                # FaceKey(key))
                      => /\ FaceKey(key) \in DOMAIN result[k]
                         /\ result[k][FaceKey(key)] = StrV(WrittenValue(attrs[i]))

\* the type the claim gives a tag whose first component is head
TypeOfHead(head) ==
    IF StartsWith(head, Str_faceType) \/ IsShorthand(head) THEN Str_face
    ELSE IF StartsWith(head, <<"@", "!">>) THEN Str_at
    ELSE head

\* C10: the type of the segment of a bracket tag depends on the first
\* component T of the tag alone: face when T starts with faceType or is
\* lower-case letters, a colon and digits (id is then the digits), at when T
\* starts with @!, and T otherwise; no attribute and no field of a mention
\* record changes it.
C10_TypeFromHead ==
    Returned =>
        \A k \in TagMarks :
            LET head == TagHead(Src(k))
            IN  /\ result[k][Str_type] = StrV(TypeOfHead(head))
                /\ IsShorthand(head)
                     => /\ Str_id \in DOMAIN result[k]
                        /\ result[k][Str_id] =
                             StrV(SliceFrom(head, IndexOf(head, <<":">>) + 1))

====
